---- MODULE Spec2Model ----
(***************************************************************************)
(* The /convert request pipeline of pdf2image-api, in its two deployments: *)
(* main.py (bearer-token gate) and serverless_main.py (no gate).           *)
(*                                                                         *)
(* Text is modelled as a sequence of one-character strings so that         *)
(* str.upper(), str.lower() and str.endswith() are computed, not assumed.  *)
(* An Optional[int] is a sequence of length 0 (None) or 1.  The Rasterizer *)
(* (pdf2image.convert_from_bytes) and the Encoder (PIL Image.save) are     *)
(* external: what they do for a request is an input, env.                  *)
(***************************************************************************)
EXTENDS Integers, Sequences, FiniteSets, TLC

VARIABLES
    req,    \* the request in flight: filename, format, dpi, quality, len(content)
    token,  \* the bearer credential presented with it
    env,    \* what the Rasterizer and the Encoder do with its document
    h       \* per deployment: the handler's position, locals, calls and response

vars == <<req, token, env, h>>

\* The two deployments of the service.
Variants == {"main", "serverless"}

----------------------------------------------------------------------------
\* Bound of the model: the largest page count the Rasterizer returns.
MaxPages == 3

----------------------------------------------------------------------------
\* Python str methods

LowerLetters == <<"a","b","c","d","e","f","g","h","i","j","k","l","m",
                  "n","o","p","q","r","s","t","u","v","w","x","y","z">>

UpperLetters == <<"A","B","C","D","E","F","G","H","I","J","K","L","M",
                  "N","O","P","Q","R","S","T","U","V","W","X","Y","Z">>

upper_char(c) ==
    IF \E k \in 1..Len(LowerLetters) : LowerLetters[k] = c
    THEN UpperLetters[CHOOSE k \in 1..Len(LowerLetters) : LowerLetters[k] = c]
    ELSE c

lower_char(c) ==
    IF \E k \in 1..Len(UpperLetters) : UpperLetters[k] = c
    THEN LowerLetters[CHOOSE k \in 1..Len(UpperLetters) : UpperLetters[k] = c]
    ELSE c

upper(s) == [k \in 1..Len(s) |-> upper_char(s[k])]

lower(s) == [k \in 1..Len(s) |-> lower_char(s[k])]

endswith(s, suffix) ==
    /\ Len(s) >= Len(suffix)
    /\ SubSeq(s, Len(s) - Len(suffix) + 1, Len(s)) = suffix

RECURSIVE join(_, _)
join(sep, parts) ==
    IF Len(parts) = 0 THEN <<>>
    ELSE IF Len(parts) = 1 THEN parts[1]
    ELSE parts[1] \o sep \o join(sep, Tail(parts))

----------------------------------------------------------------------------
\* Configuration

DEFAULT_DPI == 300

PNG == <<"P","N","G">>
JPEG == <<"J","P","E","G">>
JPG == <<"J","P","G">>
WEBP == <<"W","E","B","P">>

SUPPORTED_FORMATS == <<PNG, JPEG, JPG, WEBP>>

MAX_FILE_SIZE == 50 * 1024 * 1024

API_KEY == "your-secret-api-key-here"

PdfSuffix == <<".","p","d","f">>

\* format in ["JPEG", "JPG"]
IsJpegFormat(format) == format \in {JPEG, JPG}

\* format in SUPPORTED_FORMATS
InSupportedFormats(format) ==
    \E k \in 1..Len(SUPPORTED_FORMATS) : SUPPORTED_FORMATS[k] = format

----------------------------------------------------------------------------
\* Exceptions and responses

NoBody == [kind |-> "none", image |-> <<>>, entries |-> <<>>]

HTTPException(status_code, detail) ==
    [type |-> "HTTPException", status_code |-> status_code, detail |-> detail]

\* An error of the Rasterizer or the Encoder: any Exception that is not an
\* HTTPException.
LibraryError(message) ==
    [type |-> "Exception", status_code |-> 0, detail |-> message]

\* str(e): the message text of the exception.
str(e) == e.detail

\* The framework's rendering of an HTTPException that leaves the handler:
\* status_code with the JSON body {detail}.
ErrorResponse(e) ==
    [status |-> e.status_code, detail |-> e.detail,
     media_type |-> <<"application/json">>, disposition |-> <<>>,
     body |-> NoBody]

\* except Exception as e: raise HTTPException(500, f"Conversion failed: {e}").
\* HTTPException is itself a subclass of Exception, so one raised inside the
\* try block is caught here as well.
ExceptHandler(e) ==
    HTTPException(500, <<"Conversion failed: ">> \o str(e))

StreamingResponse(body, media_type, disposition) ==
    [status |-> 200, detail |-> <<>>, media_type |-> media_type,
     disposition |-> disposition, body |-> body]

NoResponse ==
    [status |-> 0, detail |-> <<>>, media_type |-> <<>>, disposition |-> <<>>,
     body |-> NoBody]

----------------------------------------------------------------------------
\* Inputs of a request

NoRequest ==
    [filename |-> <<>>, format |-> <<>>, dpi |-> 0, quality |-> <<>>, len |-> 0]

Filenames ==
    { <<"a",".","p","d","f">>, <<"A",".","P","D","F">>,
      <<"a",".","t","x","t">>, <<"p","d","f">> }

Formats ==
    { PNG, <<"p","n","g">>, JPEG, <<"j","p","e","g">>, JPG, <<"J","p","g">>,
      WEBP, <<"G","I","F">> }

Dpis == {71, 72, DEFAULT_DPI, 600, 601}

\* Optional[int]: <<>> is None.
Qualities == {<<>>, <<0>>, <<1>>, <<100>>, <<101>>}

\* len(content)
ContentLengths == {MAX_FILE_SIZE, MAX_FILE_SIZE + 1}

Credentials == {API_KEY, "some-other-key"}

Requests ==
    [filename : Filenames, format : Formats, dpi : Dpis,
     quality : Qualities, len : ContentLengths]

\* What the external capabilities do with the document: the Rasterizer raises
\* or returns pages (0..MaxPages) page images, and the Encoder raises on page
\* enc_fail (0: on none).
NoEnv == [raster_ok |-> TRUE, pages |-> 0, enc_fail |-> 0]

Envs ==
    { e \in [raster_ok : BOOLEAN, pages : 0..MaxPages, enc_fail : 0..MaxPages] :
        /\ e.enc_fail <= e.pages
        /\ ~e.raster_ok => (e.pages = 0) }

----------------------------------------------------------------------------
\* The state of one execution of the handler: its position, its locals
\* (format, images, the ZIP under construction), the calls it has made to the
\* Rasterizer (their keyword arguments) and to the Encoder, and its response.

Idle ==
    [pc |-> "idle", format |-> <<>>, calls |-> <<>>, images |-> <<>>,
     saves |-> <<>>, zip |-> <<>>, resp |-> NoResponse]

\* main.py resolves the verify_api_key dependency before the handler body;
\* serverless_main.py has no dependency.
Start(v) == [Idle EXCEPT !.pc = IF v = "main" THEN "auth" ELSE "validate"]

\* raise outside the try block
Raise(s, e) == [s EXCEPT !.pc = "done", !.resp = ErrorResponse(e)]

\* raise inside the try block
RaiseInTry(s, e) == Raise(s, ExceptHandler(e))

\* A gate that lets every credential through.
verify_api_key_open(s, credentials) == [s EXCEPT !.pc = "validate"]

\* main.py: verify_api_key
verify_api_key(s, credentials) ==
    IF credentials # API_KEY
    THEN Raise(s, HTTPException(401,
           <<"Invalid API key. Please provide a valid API key in the Authorization header.">>))
    ELSE [s EXCEPT !.pc = "validate"]

\* An upper dpi bound that is off by one.
DpiOutOfRange_off(dpi) == dpi < 72 \/ dpi > 601

\* if dpi < 72 or dpi > 600
DpiOutOfRange(dpi) == dpi < 72 \/ dpi > 600

\* A quality check that forgets the format.
QualityOutOfRange_any(format, quality) ==
    /\ quality # <<>>
    /\ (quality[1] < 1 \/ quality[1] > 100)

\* if format in ["JPEG", "JPG"] and quality is not None:
\*     if quality < 1 or quality > 100
QualityOutOfRange(format, quality) ==
    /\ IsJpegFormat(format) /\ quality # <<>>
    /\ (quality[1] < 1 \/ quality[1] > 100)

\* The checks before the try block; format = format.upper() rebinds the local.
ValidateParams(s, r) ==
    LET format == upper(r.format) IN
    IF ~endswith(lower(r.filename), PdfSuffix)
    THEN Raise(s, HTTPException(400, <<"File must be a PDF">>))
    ELSE IF ~InSupportedFormats(format)
    THEN Raise([s EXCEPT !.format = format],
               HTTPException(400, <<"Unsupported format. Supported formats: ">>
                                   \o join(<<",", " ">>, SUPPORTED_FORMATS)))
    ELSE IF DpiOutOfRange(r.dpi)
    THEN Raise([s EXCEPT !.format = format],
               HTTPException(400, <<"DPI must be between 72 and 600">>))
    ELSE IF QualityOutOfRange(format, r.quality)
    THEN Raise([s EXCEPT !.format = format],
               HTTPException(400, <<"Quality must be between 1 and 100">>))
    ELSE [s EXCEPT !.format = format, !.pc = "read"]

\* if len(content) > MAX_FILE_SIZE
FileTooLarge(len) == len > MAX_FILE_SIZE

\* content = await file.read(), then the size check, inside the try block.
ReadContent(s, r) ==
    IF FileTooLarge(r.len)
    THEN RaiseInTry(s, HTTPException(413, <<"File too large. Maximum size: 50MB">>))
    ELSE [s EXCEPT !.pc = "convert"]

\* main.py: the convert_params dict; jpeg_quality is a key only for JPEG/JPG
\* with a quality supplied.
convert_params(format, dpi, quality) ==
    IF IsJpegFormat(format) /\ quality # <<>>
    THEN [dpi |-> dpi, fmt |-> lower(format), jpeg_quality |-> quality]
    ELSE [dpi |-> dpi, fmt |-> lower(format)]

\* Keyword arguments that pass the quality whatever the format.
convert_kwargs_always(format, dpi, quality) ==
    [dpi |-> dpi, fmt |-> lower(format), jpeg_quality |-> quality]

\* serverless_main.py: the keyword arguments written at the call; jpeg_quality
\* is always passed, None (<<>>) outside JPEG/JPG.
convert_kwargs(format, dpi, quality) ==
    [dpi |-> dpi, fmt |-> lower(format),
     jpeg_quality |-> IF IsJpegFormat(format) THEN quality ELSE <<>>]

\* A page image returned by the Rasterizer.
PageImage(k, params) == [page |-> k, dpi |-> params.dpi]

\* images = convert_from_bytes(content, ...); if not images: raise 400
ConvertFromBytes(s, params, e) ==
    LET s1 == [s EXCEPT !.calls = Append(@, params)] IN
    IF ~e.raster_ok
    THEN RaiseInTry(s1, LibraryError(<<"rasterizer error">>))
    ELSE IF e.pages = 0
    THEN RaiseInTry(s1, HTTPException(400, <<"No pages found in PDF">>))
    ELSE [s1 EXCEPT !.images = [k \in 1..e.pages |-> PageImage(k, params)],
                    !.pc = IF e.pages = 1 THEN "single" ELSE "zip"]

Rasterize(v, s, r, e) ==
    ConvertFromBytes(s,
        IF v = "main" THEN convert_params(s.format, r.dpi, r.quality)
                      ELSE convert_kwargs(s.format, r.dpi, r.quality),
        e)

\* The bytes image.save(img_buffer, format=format) writes.
Encoded(image, format) == [image |-> image, format |-> format]

\* Entry names counted from 0 (enumerate without its start argument).
PageName_zero(i, format) == <<"page_", i - 1, ".">> \o lower(format)

\* f"page_{i}.{format.lower()}"
PageName(i, format) == <<"page_", i, ".">> \o lower(format)

\* len(images) == 1: save the page and return it.
SaveSingle(s, e) ==
    LET s1 == [s EXCEPT !.saves = Append(@, [page |-> 1, format |-> s.format])] IN
    IF e.enc_fail = 1
    THEN RaiseInTry(s1, LibraryError(<<"encoder error">>))
    ELSE [s1 EXCEPT
            !.pc = "done",
            !.resp = StreamingResponse(
                        [kind |-> "image",
                         image |-> <<Encoded(s.images[1], s.format)>>,
                         entries |-> <<>>],
                        <<"image/">> \o lower(s.format),
                        <<"attachment; filename=page_1.">> \o lower(s.format))]

\* A best-effort loop: a page that fails to encode ends the archive early.
ZipWrite_besteffort(s, e) ==
    LET i == Len(s.zip) + 1
        s1 == [s EXCEPT !.saves = Append(@, [page |-> i, format |-> s.format])]
    IN
    IF e.enc_fail = i
    THEN [s1 EXCEPT !.pc = "zipped"]
    ELSE [s1 EXCEPT
            !.zip = Append(@, [name |-> <<"page_", i, ".">> \o lower(s.format),
                               data |-> [image |-> s.images[i], format |-> s.format]]),
            !.pc = IF i = Len(s.images) THEN "zipped" ELSE "zip"]

\* One iteration of: for i, image in enumerate(images, 1): save, writestr.
ZipWrite(s, e) ==
    LET i == Len(s.zip) + 1
        s1 == [s EXCEPT !.saves = Append(@, [page |-> i, format |-> s.format])]
    IN
    IF e.enc_fail = i
    THEN RaiseInTry(s1, LibraryError(<<"encoder error">>))
    ELSE [s1 EXCEPT
            !.zip = Append(@, [name |-> PageName(i, s.format),
                               data |-> Encoded(s.images[i], s.format)]),
            !.pc = IF i = Len(s.images) THEN "zipped" ELSE "zip"]

\* return StreamingResponse(zip, media_type="application/zip", ...)
ReturnZip(s) ==
    [s EXCEPT
        !.pc = "done",
        !.resp = StreamingResponse(
                    [kind |-> "zip", image |-> <<>>, entries |-> s.zip],
                    <<"application/zip">>,
                    <<"attachment; filename=pdf_images.zip">>)]

\* The handler of deployment v, one step from local state s.
Step(v, s, r, tok, e) ==
    CASE s.pc = "auth"     -> verify_api_key(s, tok)
      [] s.pc = "validate" -> ValidateParams(s, r)
      [] s.pc = "read"     -> ReadContent(s, r)
      [] s.pc = "convert"  -> Rasterize(v, s, r, e)
      [] s.pc = "single"   -> SaveSingle(s, e)
      [] s.pc = "zip"      -> ZipWrite(s, e)
      [] s.pc = "zipped"   -> ReturnZip(s)
      [] OTHER             -> s

\* The handler of deployment v run to its response.
RECURSIVE RunFrom(_, _, _, _, _)
RunFrom(v, s, r, tok, e) ==
    IF s.pc = "done" THEN s ELSE RunFrom(v, Step(v, s, r, tok, e), r, tok, e)

convert_pdf_to_images(v, r, tok, e) == RunFrom(v, Start(v), r, tok, e)

----------------------------------------------------------------------------
\* The state machine: the same request is posted to both deployments, each
\* handles it step by step, and the exchange ends when both have responded.

Init ==
    /\ req = NoRequest
    /\ token = API_KEY
    /\ env = NoEnv
    /\ h = [v \in Variants |-> Idle]

Post ==
    /\ \A v \in Variants : h[v].pc = "idle"
    /\ \E r \in Requests, tok \in Credentials, e \in Envs :
          /\ req' = r
          /\ token' = tok
          /\ env' = e
    /\ h' = [v \in Variants |-> Start(v)]

VerifyApiKey ==
    /\ h["main"].pc = "auth"
    /\ h' = [h EXCEPT !["main"] = verify_api_key(@, token)]
    /\ UNCHANGED <<req, token, env>>

Validate(v) ==
    /\ h[v].pc = "validate"
    /\ h' = [h EXCEPT ![v] = ValidateParams(@, req)]
    /\ UNCHANGED <<req, token, env>>

Read(v) ==
    /\ h[v].pc = "read"
    /\ h' = [h EXCEPT ![v] = ReadContent(@, req)]
    /\ UNCHANGED <<req, token, env>>

Convert(v) ==
    /\ h[v].pc = "convert"
    /\ h' = [h EXCEPT ![v] = Rasterize(v, @, req, env)]
    /\ UNCHANGED <<req, token, env>>

Single(v) ==
    /\ h[v].pc = "single"
    /\ h' = [h EXCEPT ![v] = SaveSingle(@, env)]
    /\ UNCHANGED <<req, token, env>>

Zip(v) ==
    /\ h[v].pc = "zip"
    /\ h' = [h EXCEPT ![v] = ZipWrite(@, env)]
    /\ UNCHANGED <<req, token, env>>

Archive(v) ==
    /\ h[v].pc = "zipped"
    /\ h' = [h EXCEPT ![v] = ReturnZip(@)]
    /\ UNCHANGED <<req, token, env>>

\* Both responses are sent; nothing of the request is kept.
Finish ==
    /\ \A v \in Variants : h[v].pc = "done"
    /\ req' = NoRequest
    /\ token' = API_KEY
    /\ env' = NoEnv
    /\ h' = [v \in Variants |-> Idle]

Next ==
    \/ Post
    \/ VerifyApiKey
    \/ \E v \in Variants : Validate(v)
    \/ \E v \in Variants : Read(v)
    \/ \E v \in Variants : Convert(v)
    \/ \E v \in Variants : Single(v)
    \/ \E v \in Variants : Zip(v)
    \/ \E v \in Variants : Archive(v)
    \/ Finish

Spec == Init /\ [][Next]_vars

----------------------------------------------------------------------------
\* The five checks as the specification states them, on the request itself.

NameOk(r) == endswith(lower(r.filename), PdfSuffix)

FormatOk(r) == upper(r.format) \in {PNG, JPEG, JPG, WEBP}

DpiOk(r) == 72 <= r.dpi /\ r.dpi <= 600

QualityOk(r) ==
    (upper(r.format) \in {JPEG, JPG} /\ r.quality # <<>>)
        => (1 <= r.quality[1] /\ r.quality[1] <= 100)

SizeOk(r) == r.len <= MAX_FILE_SIZE

FirstFourOk(r) == NameOk(r) /\ FormatOk(r) /\ DpiOk(r) /\ QualityOk(r)

AllFiveOk(r) == FirstFourOk(r) /\ SizeOk(r)

\* The request got past the gate of deployment v (there is none in serverless).
Authorized(v) == v = "main" => token = API_KEY

Done(v) == h[v].pc = "done"

Responded(v) == Done(v) /\ Authorized(v)

\* The error the specification assigns to the earliest failing check.
ExpectedValidationError(r) ==
    IF ~NameOk(r) THEN [status |-> 400, detail |-> <<"File must be a PDF">>]
    ELSE IF ~FormatOk(r)
    THEN [status |-> 400,
          detail |-> <<"Unsupported format. Supported formats: ",
                       "P","N","G", ",", " ", "J","P","E","G", ",", " ",
                       "J","P","G", ",", " ", "W","E","B","P">>]
    ELSE IF ~DpiOk(r)
    THEN [status |-> 400, detail |-> <<"DPI must be between 72 and 600">>]
    ELSE IF ~QualityOk(r)
    THEN [status |-> 400, detail |-> <<"Quality must be between 1 and 100">>]
    ELSE [status |-> 413, detail |-> <<"File too large. Maximum size: 50MB">>]

\* The arguments that reach the Rasterizer's behaviour: a jpeg_quality of None
\* and an omitted jpeg_quality are the same.
EffectiveArgs(call) ==
    [dpi |-> call.dpi, fmt |-> call.fmt,
     quality |-> IF "jpeg_quality" \in DOMAIN call THEN call.jpeg_quality ELSE <<>>]

----------------------------------------------------------------------------
\* C1: in both deployments, a request that passes the filename, format, dpi
\* and quality checks (and presents the secret, where gated) but whose
\* document is longer than MAX_FILE_SIZE is answered 413 PayloadTooLarge.
C1_PayloadTooLarge ==
    \A v \in Variants :
        (Responded(v) /\ FirstFourOk(req) /\ ~SizeOk(req))
            => h[v].resp.status = 413

\* C2: a request that passes all five checks and for which the Rasterizer
\* returns zero pages is answered 400 "no pages found", never 500.
C2_ZeroPagesInvalidInput ==
    \A v \in Variants :
        (Responded(v) /\ AllFiveOk(req) /\ env.raster_ok /\ env.pages = 0)
            => /\ h[v].resp.status = 400
               /\ h[v].resp.detail = <<"No pages found in PDF">>

\* C3: for a request that fails one or more of the five checks, the reported
\* error is that of the earliest failing check in the order filename, format,
\* dpi, quality, size.
C3_FirstFailingCheckWins ==
    \A v \in Variants :
        (Responded(v) /\ ~AllFiveOk(req))
            => /\ h[v].resp.status = ExpectedValidationError(req).status
               /\ h[v].resp.detail = ExpectedValidationError(req).detail

\* C4: the Rasterizer is invoked at most once per execution, only after all
\* five checks have passed (and the gate, where there is one), and it then
\* receives the request's dpi and the lower-cased format.
C4_RasterizerOnlyAfterValidation ==
    \A v \in Variants :
        /\ Len(h[v].calls) <= 1
        /\ Len(h[v].calls) = 1
              => /\ AllFiveOk(req)
                 /\ Authorized(v)
                 /\ h[v].calls[1].dpi = req.dpi
                 /\ h[v].calls[1].fmt = lower(req.format)

C4_Witness ==
    \E v \in Variants :
        /\ Len(h[v].calls) = 1
        /\ req.dpi = 600
        /\ req.format = <<"J","p","g">>
        /\ req.quality = <<100>>
        /\ req.len = MAX_FILE_SIZE

\* C5: in the gated deployment a request whose token differs from the secret
\* is answered 401 whatever its other parameters, without any Rasterizer or
\* Encoder call; a request whose token equals the secret enters the validation
\* chain.
C5_GateBeforeEverything ==
    LET m == h["main"] IN
    /\ (token # API_KEY /\ m.pc \notin {"idle", "auth"})
          => /\ m.pc = "done"
             /\ m.resp.status = 401
             /\ m.resp.body = NoBody
             /\ m.calls = <<>>
             /\ m.saves = <<>>
    /\ (token = API_KEY /\ m.pc \notin {"idle", "auth"})
          => /\ m.resp.status # 401
             /\ (m.pc = "done" /\ ~FirstFourOk(req))
                   => m.resp.detail = ExpectedValidationError(req).detail

C5_Witness ==
    /\ token # API_KEY
    /\ Done("main")
    /\ AllFiveOk(req)
    /\ env.raster_ok /\ env.pages >= 1 /\ env.enc_fail = 0

\* C6: when the Rasterizer and every Encoder call succeed, the page count N
\* alone chooses the result: N = 1 a single image (image/<ext>, page_1.<ext>),
\* N > 1 a ZIP pdf_images.zip (application/zip) of exactly N entries
\* page_1.<ext> .. page_N.<ext> in page order, entry i the encoding of page i.
C6_ResultShapeByPageCount ==
    \A v \in Variants :
        (Responded(v) /\ AllFiveOk(req) /\ env.raster_ok /\ env.pages >= 1
                      /\ env.enc_fail = 0)
            => LET ext == lower(req.format)
                   resp == h[v].resp
                   page(i) == h[v].images[i]
               IN /\ resp.status = 200
                  /\ Len(h[v].images) = env.pages
                  /\ \A i \in 1..env.pages : page(i).page = i
                  /\ IF env.pages = 1
                     THEN /\ resp.media_type = <<"image/">> \o ext
                          /\ resp.disposition
                                = <<"attachment; filename=page_1.">> \o ext
                          /\ resp.body.kind = "image"
                          /\ resp.body.image
                                = <<Encoded(page(1), upper(req.format))>>
                     ELSE /\ resp.media_type = <<"application/zip">>
                          /\ resp.disposition
                                = <<"attachment; filename=pdf_images.zip">>
                          /\ resp.body.kind = "zip"
                          /\ Len(resp.body.entries) = env.pages
                          /\ \A i \in 1..env.pages :
                                /\ resp.body.entries[i].name
                                      = <<"page_", i, ".">> \o ext
                                /\ resp.body.entries[i].data
                                      = Encoded(page(i), upper(req.format))

C6_Witness ==
    \E v \in Variants :
        /\ Responded(v)
        /\ h[v].resp.body.kind = "zip"
        /\ Len(h[v].resp.body.entries) = MaxPages
        /\ req.format = <<"j","p","e","g">>

\* C7: a failure of the Rasterizer, or of the Encoder on any page k, ends the
\* request with 500 "Conversion failed: <message>" and no image or archive
\* bytes; a response is a complete single image, a complete N-entry archive or
\* an error, never a partial archive.
C7_FailureIsConversionFailed ==
    \A v \in Variants :
        LET resp == h[v].resp IN
        /\ (Responded(v) /\ AllFiveOk(req) /\ ~env.raster_ok)
              => /\ resp.status = 500
                 /\ resp.detail = <<"Conversion failed: ", "rasterizer error">>
                 /\ resp.body = NoBody
        /\ (Responded(v) /\ AllFiveOk(req) /\ env.raster_ok /\ env.enc_fail >= 1)
              => /\ resp.status = 500
                 /\ resp.detail = <<"Conversion failed: ", "encoder error">>
                 /\ resp.body = NoBody
                 /\ Len(h[v].saves) = env.enc_fail
        /\ resp.body.kind = "zip"
              => (resp.status = 200 /\ Len(resp.body.entries) = env.pages)
        /\ resp.body.kind = "image"
              => (resp.status = 200 /\ env.pages = 1 /\ Len(resp.body.image) = 1)
        /\ resp.status # 200 => resp.body = NoBody

C7_Witness ==
    \E v \in Variants :
        /\ Responded(v)
        /\ env.pages = MaxPages
        /\ env.enc_fail = MaxPages
        /\ Len(h[v].zip) = MaxPages - 1
        /\ h[v].resp.status = 500

\* C8: for PNG and WEBP a supplied quality, in range or not, causes no error,
\* is not forwarded to the Rasterizer, and leaves the response that of the same
\* request without quality; for JPEG/JPG a quality outside 1..100 is answered
\* 400 and one inside 1..100 is forwarded to the Rasterizer.
C8_QualityOnlyForJpeg ==
    \A v \in Variants :
        LET s == h[v]
            plain == [req EXCEPT !.quality = <<>>]
        IN
        /\ (Authorized(v) /\ s.pc # "idle" /\ upper(req.format) \in {PNG, WEBP})
              => /\ \A k \in 1..Len(s.calls) :
                       EffectiveArgs(s.calls[k]).quality = <<>>
                 /\ s.resp.detail # <<"Quality must be between 1 and 100">>
                 /\ Done(v)
                       => s.resp = convert_pdf_to_images(v, plain, token, env).resp
        /\ (Responded(v) /\ upper(req.format) \in {JPEG, JPG} /\ req.quality # <<>>
                         /\ ~QualityOk(req))
              => /\ s.resp.status = 400
                 /\ (NameOk(req) /\ DpiOk(req))
                       => s.resp.detail = <<"Quality must be between 1 and 100">>
                 /\ s.calls = <<>>
        /\ (upper(req.format) \in {JPEG, JPG} /\ req.quality # <<>>
                         /\ Len(s.calls) = 1)
              => /\ QualityOk(req)
                 /\ "jpeg_quality" \in DOMAIN s.calls[1]
                 /\ s.calls[1].jpeg_quality = req.quality

C8_Witness ==
    \E v \in Variants :
        /\ Responded(v)
        /\ req.format = WEBP
        /\ req.quality = <<101>>
        /\ h[v].resp.status = 200
        /\ Len(h[v].calls) = 1

\* C9: a validated request with format JPG (any letter case) hands the
\* Rasterizer and the Encoder the same format as the otherwise identical
\* request with format JPEG.
C9_JpgAliasOfJpeg ==
    \A v \in Variants :
        (Responded(v) /\ AllFiveOk(req) /\ upper(req.format) = JPG)
            => LET twin == convert_pdf_to_images(
                              v, [req EXCEPT !.format = JPEG], token, env)
               IN /\ Len(twin.calls) = Len(h[v].calls)
                  /\ \A k \in 1..Len(h[v].calls) :
                        h[v].calls[k].fmt = twin.calls[k].fmt
                  /\ Len(twin.saves) = Len(h[v].saves)
                  /\ \A k \in 1..Len(h[v].saves) :
                        h[v].saves[k].format = twin.saves[k].format

\* C10: given the secret, the gated deployment and the non-gated one answer
\* the same request with the same status, headers and body, and call the
\* Rasterizer under the same conditions with the same effective arguments.
C10_VariantsAgree ==
    (token = API_KEY /\ Done("main") /\ Done("serverless"))
        => /\ h["main"].resp = h["serverless"].resp
           /\ Len(h["main"].calls) = Len(h["serverless"].calls)
           /\ \A k \in 1..Len(h["main"].calls) :
                 EffectiveArgs(h["main"].calls[k])
                    = EffectiveArgs(h["serverless"].calls[k])
           /\ h["main"].saves = h["serverless"].saves

C10_Witness ==
    /\ token = API_KEY
    /\ Done("main") /\ Done("serverless")
    /\ req.format = PNG
    /\ req.quality = <<1>>
    /\ h["main"].resp.body.kind = "zip"
    /\ h["main"].calls # h["serverless"].calls

====
